---- MODULE Spec2Model ----
(***************************************************************************)
(* Model of the evaluation-dataset toolkit.                                *)
(*                                                                         *)
(*  - Spec: the bounded concurrent extraction of                          *)
(*    notebooks/create_mock_eval_dataset/create_mock_eval_dataset.py:      *)
(*    extract_eval_data batches the pages, gathers one call_agent task     *)
(*    per batch behind LLM_EXTRACTION_SEMAPHORE, and main persists the     *)
(*    combined report.  The asyncio event loop is modelled by its FIFO     *)
(*    queue of ready callbacks (first steps of tasks, wakeups of           *)
(*    semaphore waiters, the wakeup of main, the stop of the loop).  An    *)
(*    agent reply is an external event: it resumes its task at any point   *)
(*    between two callbacks, and the done callback of the gather is taken  *)
(*    together with the end of the task.  The loop stops and asyncio.run   *)
(*    cancels the remaining tasks when the stop callback runs; callbacks   *)
(*    queued behind it run during the shutdown.  asyncio.Semaphore is the  *)
(*    one of Python 3.12, the version itertools.batched needs.             *)
(*  - FairSpec: the same run from fewer inputs, with weak fairness of the  *)
(*    steps of the run, for the termination of extract_eval_data.          *)
(*  - SpecMetrics: the scoring functions of packages/shared/metrics.py     *)
(*    applied to a table of expected and extracted values.                 *)
(*  - SpecEvaluate: packages/shared/evaluate.py, the merge of the ground   *)
(*    truth with the agent responses and the metrics of the merged table.  *)
(***************************************************************************)
EXTENDS Integers, Sequences, FiniteSets, TLC

VARIABLES
    available_pages,  \* list(llm_input_by_page.keys()), the input of extract_eval_data
    agent,            \* the pages on which the (temperature 0.0) agent misbehaves
    tasks,            \* tasks[k]: the pages of the message of the k-th call_agent
    pc,               \* pc[k]: where the k-th call_agent task is
    results,          \* results[k]: the value returned by the k-th task
    sem_value,        \* LLM_EXTRACTION_SEMAPHORE._value
    sem_waiters,      \* LLM_EXTRACTION_SEMAPHORE._waiters (task of each future)
    ready,            \* the event loop's queue of ready callbacks
    requests,         \* the agent.run calls made so far, in order
    outer,            \* the future returned by asyncio.gather
    nfinished,        \* gather's count of finished children
    main,             \* where the main task is
    loop,             \* the event loop of asyncio.run
    report,           \* the value returned by extract_eval_data
    json_file,        \* material_changes_report.json
    csv_file,         \* material_changes_report.csv
    data,             \* the DataFrame handed to the scoring functions
    accuracy,         \* what compute_extraction_accuracy(data) returned
    precision,        \* what compute_precision(data) returned
    recall,           \* what compute_recall(data) returned
    ground_truth_df,  \* create_evaluation_table's first argument
    agent_responses_df, \* create_evaluation_table's second argument
    evaluation_df,    \* what create_evaluation_table returned or raised
    metrics           \* what calculate_overall_metrics returned

extractVars == <<available_pages, agent, tasks, pc, results, sem_value, sem_waiters,
                 ready, requests, outer, nfinished, main, loop, report, json_file,
                 csv_file>>

metricsVars == <<data, accuracy, precision, recall>>

evaluateVars == <<ground_truth_df, agent_responses_df, evaluation_df, metrics>>

vars == <<extractVars, metricsVars, evaluateVars>>

----------------------------------------------------------------------------
(* Bounds of the model *)

MaxPages == 23

MaxRows == 3

MaxDfRows == 2

(* Program constants *)

PAGES_PER_CALL == 2

SEMAPHORE_VALUE == 10

----------------------------------------------------------------------------
(* Values *)

(* None: what a variable holds before it is assigned, and an agent value of
   the wrong shape. *)
NoValue == [type |-> "NoneType", material_changes |-> <<>>]

(* A file that has not been written; a written file is <<content>>. *)
Absent == <<>>

Min(a, b) == IF a < b THEN a ELSE b

RECURSIVE Flatten(_)
Flatten(ss) == IF ss = <<>> THEN <<>> ELSE Head(ss) \o Flatten(Tail(ss))

(* A grouping that drops a last batch shorter than n. *)
RECURSIVE batched_drops_short_batch(_, _)
batched_drops_short_batch(s, n) ==
    IF Len(s) < n THEN <<>>
    ELSE <<SubSeq(s, 1, n)>> \o batched_drops_short_batch(SubSeq(s, n + 1, Len(s)), n)

(* itertools.batched(iterable, n): consecutive tuples of n items, the last
   one shorter when the items run out. *)
RECURSIVE batched(_, _)
batched(s, n) ==
    IF s = <<>> THEN <<>>
    ELSE <<SubSeq(s, 1, Min(n, Len(s)))>>
             \o batched(SubSeq(s, Min(n, Len(s)) + 1, Len(s)), n)

(* The data model: ReasonForChange, MaterialChange, MaterialChangesReport. *)
ReasonForChange(p, i, j) ==
    [reason |-> <<p, i, j>>, suporting_text |-> j,
     reference |-> [file_name |-> "report", page_number |-> p]]

MaterialChange(p, i) ==
    [material_change |-> <<p, i>>,
     reasons_for_change |-> [j \in 1..((p + i) % 3) |-> ReasonForChange(p, i, j)]]

MaterialChangesReport(changes) ==
    [type |-> "MaterialChangesReport", material_changes |-> changes]

isinstance_MaterialChangesReport(v) == v.type = "MaterialChangesReport"

(* What the agent extracts from the pages of one message: an external input,
   a function of the message because the temperature is 0.  Page p carries
   p % 3 material changes, the i-th with (p + i) % 3 reasons. *)
AgentReply(pages) ==
    MaterialChangesReport(Flatten(
        [x \in 1..Len(pages) |->
            [i \in 1..(pages[x] % 3) |-> MaterialChange(pages[x], i)]]))

(* The agents of the model: a reliable one, one that answers a value of the
   wrong shape for the first page, and one whose request moreover raises for
   the last page. *)
Agents(pages) ==
    LET first == IF pages = <<>> THEN {} ELSE {pages[1]}
        last == IF pages = <<>> THEN {} ELSE {pages[Len(pages)]}
    IN {[wrong_shape |-> {}, raises |-> {}],
        [wrong_shape |-> first, raises |-> {}],
        [wrong_shape |-> first, raises |-> last]}

Touches(pages, set) == \E x \in 1..Len(pages) : pages[x] \in set

----------------------------------------------------------------------------
(* asyncio.Semaphore, over the part of the state it reads and writes *)

World == [value |-> sem_value, waiters |-> sem_waiters, pc |-> pc, ready |-> ready]

Callback(cb, k) == [cb |-> cb, task |-> k]

(* the first waiter whose future is not done, or 0 *)
FirstNotDone(w) ==
    LET live == {i \in 1..Len(w.waiters) : w.pc[w.waiters[i]] = "waiting"}
    IN IF live = {} THEN 0 ELSE CHOOSE i \in live : \A j \in live : i <= j

wake_up_next(w) ==
    IF FirstNotDone(w) = 0 THEN w
    ELSE LET k == w.waiters[FirstNotDone(w)]
         IN [w EXCEPT !.value = @ - 1,
                      !.pc[k] = "woken",
                      !.ready = Append(@, Callback("step", k))]

(* A release that gives the permit back and wakes no waiter. *)
release_without_wakeup(w) == [w EXCEPT !.value = @ + 1]

release(w) == wake_up_next([w EXCEPT !.value = @ + 1])

locked(w) ==
    \/ w.value = 0
    \/ \E i \in 1..Len(w.waiters) : w.pc[w.waiters[i]] # "waitcancel"

RECURSIVE wake_while(_)
wake_while(w) ==
    IF w.value > 0 /\ FirstNotDone(w) # 0 THEN wake_while(wake_up_next(w)) ELSE w

Remove(s, k) == SelectSeq(s, LAMBDA x : x # k)

SetWorld(w) ==
    /\ sem_value' = w.value
    /\ sem_waiters' = w.waiters
    /\ pc' = w.pc
    /\ ready' = w.ready

----------------------------------------------------------------------------
(* Derived counts *)

NumTasks == Len(tasks)

Done == {"result", "ValueError", "AgentError", "CancelledError"}

InFlight == {k \in 1..NumTasks : pc[k] \in {"running", "cancelling"}}

----------------------------------------------------------------------------
(* A flattening that writes one record per material change: its first
   reason, or an empty one when it has none. *)
to_tabular_format_one_row_per_change(material_changes_report) ==
    [c \in 1..Len(material_changes_report.material_changes) |->
        LET material_change == material_changes_report.material_changes[c]
            reason == IF material_change.reasons_for_change = <<>>
                        THEN ReasonForChange(0, 0, 0)
                        ELSE material_change.reasons_for_change[1]
        IN [material_change |-> material_change.material_change,
            reason |-> reason.reason,
            supporting_text |-> reason.suporting_text,
            reference_file_name |-> reason.reference.file_name,
            reference_page_number |-> reason.reference.page_number]]

(* to_tabular_format: one record per reason of each material change *)
to_tabular_format(material_changes_report) ==
    Flatten([c \in 1..Len(material_changes_report.material_changes) |->
        LET material_change == material_changes_report.material_changes[c]
        IN [r \in 1..Len(material_change.reasons_for_change) |->
              LET reason == material_change.reasons_for_change[r]
              IN [material_change |-> material_change.material_change,
                  reason |-> reason.reason,
                  supporting_text |-> reason.suporting_text,
                  reference_file_name |-> reason.reference.file_name,
                  reference_page_number |-> reason.reference.page_number]]])

(* A combination that puts each report in front of the earlier ones. *)
CombineReports_prepending(material_changes_reports) ==
    MaterialChangesReport(Flatten(
        [k \in 1..Len(material_changes_reports) |->
            material_changes_reports[Len(material_changes_reports) + 1 - k].material_changes]))

(* extract_eval_data after the gather: extend all_material_changes with each
   report of material_changes_reports, in the order of the list. *)
CombineReports(material_changes_reports) ==
    MaterialChangesReport(Flatten(
        [k \in 1..Len(material_changes_reports) |->
            material_changes_reports[k].material_changes]))

(* asyncio.gather's result: the children's results in the order the
   awaitables were passed. *)
GatherResults(res) == [k \in 1..Len(res) |-> res[k]]

(* main after extract_eval_data returned: both files are written. *)
MainPersist(material_changes_report) ==
    /\ report' = material_changes_report
    /\ json_file' = <<material_changes_report>>
    /\ csv_file' = <<to_tabular_format(material_changes_report)>>
    /\ main' = "returned"

(* gather's _done_callback for a child that finished with `status`. *)
OuterAfter(o, nf, n, status) ==
    IF o # "pending" THEN o
    ELSE IF status # "result" THEN status
    ELSE IF nf = n THEN "result"
    ELSE o

----------------------------------------------------------------------------
(* packages/shared/metrics.py.  A float is the fraction num/den that the mean
   of a boolean Series is; 0/0 is NaN, the mean of an empty Series. *)

NaN == "NaN"

Values == {NaN, "0.1", "0.2"}

NotComputed == [num |-> 0, den |-> 0 - 1]

isna(v) == v = NaN

(* DataFrame.dropna(subset=[col]) *)
dropna(df, col) == SelectSeq(df, LAMBDA row : ~isna(row[col]))

(* Series == Series, element by element: a missing value equals nothing *)
series_eq(a, b) == ~isna(a) /\ ~isna(b) /\ a = b

(* Series.mean() of a boolean Series *)
mean(bools) ==
    [num |-> Cardinality({i \in 1..Len(bools) : bools[i]}), den |-> Len(bools)]

compute_extraction_accuracy(df, expected_value_col, extracted_value_col) ==
    mean([i \in 1..Len(df) |->
            \/ series_eq(df[i][expected_value_col], df[i][extracted_value_col])
            \/ isna(df[i][expected_value_col]) /\ isna(df[i][extracted_value_col])])

(* A precision that drops the rows whose expected value is missing. *)
compute_precision_drops_expected(df, expected_value_col, extracted_value_col) ==
    LET filtered == dropna(df, expected_value_col)
    IN mean([i \in 1..Len(filtered) |->
               series_eq(filtered[i][expected_value_col], filtered[i][extracted_value_col])])

compute_precision(df, expected_value_col, extracted_value_col) ==
    LET filtered == dropna(df, extracted_value_col)
    IN mean([i \in 1..Len(filtered) |->
               series_eq(filtered[i][expected_value_col], filtered[i][extracted_value_col])])

(* A recall that drops the rows whose extracted value is missing as well. *)
compute_recall_drops_extracted(df, expected_value_col, extracted_value_col) ==
    LET filtered_data == dropna(dropna(df, expected_value_col), extracted_value_col)
    IN mean([i \in 1..Len(filtered_data) |->
               series_eq(filtered_data[i][expected_value_col],
                         filtered_data[i][extracted_value_col])])

(* A recall that keeps every row and counts two missing values as equal. *)
compute_recall_keeps_missing(df, expected_value_col, extracted_value_col) ==
    compute_extraction_accuracy(df, expected_value_col, extracted_value_col)

(* A recall that keeps every row. *)
compute_recall_without_dropna(df, expected_value_col, extracted_value_col) ==
    mean([i \in 1..Len(df) |->
            series_eq(df[i][expected_value_col], df[i][extracted_value_col])])

compute_recall(df, expected_value_col, extracted_value_col) ==
    LET filtered_data == dropna(df, expected_value_col)
    IN mean([i \in 1..Len(filtered_data) |->
               series_eq(filtered_data[i][expected_value_col],
                         filtered_data[i][extracted_value_col])])

(* Sequences over S of length at most n *)
SeqUpTo(S, n) == UNION {[1..m -> S] : m \in 0..n}

DataTables ==
    SeqUpTo([expected_value : Values, extracted_value : Values], MaxRows)

MetricsIdle ==
    /\ data = <<>>
    /\ accuracy = NotComputed
    /\ precision = NotComputed
    /\ recall = NotComputed

MetricsInit ==
    /\ data \in DataTables
    /\ accuracy = NotComputed
    /\ precision = NotComputed
    /\ recall = NotComputed

ComputeExtractionAccuracy ==
    /\ accuracy = NotComputed
    /\ accuracy' = compute_extraction_accuracy(data, "expected_value", "extracted_value")
    /\ UNCHANGED <<data, precision, recall, extractVars, evaluateVars>>

ComputePrecision ==
    /\ precision = NotComputed
    /\ precision' = compute_precision(data, "expected_value", "extracted_value")
    /\ UNCHANGED <<data, accuracy, recall, extractVars, evaluateVars>>

ComputeRecall ==
    /\ recall = NotComputed
    /\ recall' = compute_recall(data, "expected_value", "extracted_value")
    /\ UNCHANGED <<data, accuracy, precision, extractVars, evaluateVars>>

----------------------------------------------------------------------------
(* packages/shared/evaluate.py *)

(* The (id, name) keys of the tables, in the order pandas sorts them. *)
SortedKeys == <<[id |-> 1, name |-> "EBITDA"], [id |-> 1, name |-> "Net Profit"]>>

KeySet == {SortedKeys[i] : i \in 1..Len(SortedKeys)}

KeyOf(row) == [id |-> row.id, name |-> row.name]

KeysOf(df) == {KeyOf(df[i]) : i \in 1..Len(df)}

InputTables ==
    SeqUpTo({[id |-> k.id, name |-> k.name, latest_yoy_pct |-> v] :
                 k \in KeySet, v \in Values}, MaxDfRows)

EvaluationRow(k, ground_truth, agent_response) ==
    [id |-> k.id, name |-> k.name,
     latest_yoy_pct_ground_truth |-> ground_truth,
     latest_yoy_pct_agent_response |-> agent_response]

(* validate="1:1": the merge keys are unique in both tables *)
validate_one_to_one(left, right) ==
    /\ \A i, j \in 1..Len(left) : i # j => KeyOf(left[i]) # KeyOf(left[j])
    /\ \A i, j \in 1..Len(right) : i # j => KeyOf(right[i]) # KeyOf(right[j])

(* how="outer": every pair of rows with the same key, and every row without
   a partner with the other side missing, the keys sorted *)
outer_join(left, right) ==
    Flatten([x \in 1..Len(SortedKeys) |->
        LET k == SortedKeys[x]
            L == SelectSeq(left, LAMBDA row : KeyOf(row) = k)
            R == SelectSeq(right, LAMBDA row : KeyOf(row) = k)
        IN IF L = <<>>
             THEN [r \in 1..Len(R) |-> EvaluationRow(k, NaN, R[r].latest_yoy_pct)]
             ELSE IF R = <<>>
             THEN [l \in 1..Len(L) |-> EvaluationRow(k, L[l].latest_yoy_pct, NaN)]
             ELSE Flatten([l \in 1..Len(L) |->
                     [r \in 1..Len(R) |->
                         EvaluationRow(k, L[l].latest_yoy_pct, R[r].latest_yoy_pct)]])])

NoTable == [status |-> "none", rows |-> <<>>]

MergeError == [status |-> "MergeError", rows |-> <<>>]

(* A merge without validate="1:1". *)
create_evaluation_table_unvalidated(ground_truth, agent_responses) ==
    [status |-> "ok", rows |-> outer_join(ground_truth, agent_responses)]

create_evaluation_table(ground_truth, agent_responses) ==
    IF ~validate_one_to_one(ground_truth, agent_responses) THEN MergeError
    ELSE [status |-> "ok", rows |-> outer_join(ground_truth, agent_responses)]

calculate_overall_metrics(df) ==
    [materiality_precision |->
         compute_precision(df, "latest_yoy_pct_ground_truth", "latest_yoy_pct_agent_response"),
     materiality_recall |->
         compute_recall(df, "latest_yoy_pct_ground_truth", "latest_yoy_pct_agent_response")]

NoMetrics == [materiality_precision |-> NotComputed, materiality_recall |-> NotComputed]

EvaluateIdle ==
    /\ ground_truth_df = <<>>
    /\ agent_responses_df = <<>>
    /\ evaluation_df = NoTable
    /\ metrics = NoMetrics

EvaluateInit ==
    /\ ground_truth_df \in InputTables
    /\ agent_responses_df \in InputTables
    /\ evaluation_df = NoTable
    /\ metrics = NoMetrics

CreateEvaluationTable ==
    /\ evaluation_df = NoTable
    /\ evaluation_df' = create_evaluation_table(ground_truth_df, agent_responses_df)
    /\ UNCHANGED <<ground_truth_df, agent_responses_df, metrics, extractVars, metricsVars>>

CalculateOverallMetrics ==
    /\ evaluation_df.status = "ok"
    /\ metrics = NoMetrics
    /\ metrics' = calculate_overall_metrics(evaluation_df.rows)
    /\ UNCHANGED <<ground_truth_df, agent_responses_df, evaluation_df, extractVars,
                   metricsVars>>

----------------------------------------------------------------------------
(* The extraction run *)

ExtractInit(inputs) ==
    /\ available_pages \in inputs
    /\ agent \in Agents(available_pages)
    /\ tasks = <<>>
    /\ pc = <<>>
    /\ results = <<>>
    /\ sem_value = SEMAPHORE_VALUE
    /\ sem_waiters = <<>>
    /\ ready = <<>>
    /\ requests = <<>>
    /\ outer = "none"
    /\ nfinished = 0
    /\ main = "start"
    /\ loop = "running"
    /\ report = NoValue
    /\ json_file = Absent
    /\ csv_file = Absent

Init ==
    /\ ExtractInit({[i \in 1..n |-> i] : n \in 0..MaxPages})
    /\ MetricsIdle
    /\ EvaluateIdle

(* extract_eval_data up to the await of asyncio.gather: one call_agent per
   batch, each wrapped in a task whose first step is scheduled.  With no
   batch the gather is already done and main runs on without suspending. *)
ExtractStart ==
    /\ main = "start"
    /\ LET ts == batched(available_pages, PAGES_PER_CALL)
           n == Len(ts)
       IN /\ tasks' = ts
          /\ pc' = [k \in 1..n |-> "created"]
          /\ results' = [k \in 1..n |-> NoValue]
          /\ IF n = 0
               THEN /\ outer' = "result"
                    /\ MainPersist(CombineReports(<<>>))
                    /\ ready' = <<Callback("stop", 0)>>
               ELSE /\ outer' = "pending"
                    /\ main' = "awaiting"
                    /\ ready' = [k \in 1..n |-> Callback("step", k)]
                    /\ UNCHANGED <<report, json_file, csv_file>>
    /\ UNCHANGED <<metricsVars, evaluateVars>>
    /\ UNCHANGED <<available_pages, agent, sem_value, sem_waiters, requests,
                   nfinished, loop>>

(* call_agent's request: agent.run(messages=...) is called and suspends. *)
SendRequest(k) == requests' = Append(requests, [task |-> k, pages |-> tasks[k]])

(* First step of call_agent: Semaphore.acquire either takes a permit at once,
   and the request is sent, or queues a future and suspends. *)
FirstStep(k) ==
    /\ ready # <<>> /\ Head(ready) = Callback("step", k)
    /\ pc[k] = "created"
    /\ LET w == [World EXCEPT !.ready = Tail(@)]
       IN IF ~locked(w)
            THEN /\ SetWorld([w EXCEPT !.value = @ - 1, !.pc[k] = "running"])
                 /\ SendRequest(k)
            ELSE /\ SetWorld([w EXCEPT !.waiters = Append(@, k), !.pc[k] = "waiting"])
                 /\ UNCHANGED requests
    /\ UNCHANGED <<metricsVars, evaluateVars>>
    /\ UNCHANGED <<available_pages, agent, tasks, results, outer, nfinished,
                   main, loop, report, json_file, csv_file>>

(* A woken waiter resumes in Semaphore.acquire: it leaves the queue, wakes
   further waiters while permits remain, and the request is sent. *)
AcquireWoken(k) ==
    /\ ready # <<>> /\ Head(ready) = Callback("step", k)
    /\ pc[k] = "woken"
    /\ LET w == [World EXCEPT !.ready = Tail(@), !.waiters = Remove(@, k)]
       IN SetWorld([wake_while(w) EXCEPT !.pc[k] = "running"])
    /\ SendRequest(k)
    /\ UNCHANGED <<metricsVars, evaluateVars>>
    /\ UNCHANGED <<available_pages, agent, tasks, results, outer, nfinished,
                   main, loop, report, json_file, csv_file>>

(* A call_agent that returns whatever value the agent answered. *)
CallAgentStatus_unchecked(raised, value) ==
    IF raised THEN "AgentError" ELSE "result"

(* The status a task ends with when agent.run returns `value` or raises. *)
CallAgentStatus(raised, value) ==
    IF raised THEN "AgentError"
    ELSE IF ~isinstance_MaterialChangesReport(value) THEN "ValueError"
    ELSE "result"

(* A call_agent that releases before it returns and again in its finally. *)
CallAgentFinally_releases_twice(w) == release(release(w))

(* A call_agent without the finally clause: the permit is never released. *)
CallAgentFinally_never_releases(w) == w

(* call_agent's finally clause. *)
CallAgentFinally(w) == release(w)

(* agent.run returns or raises: call_agent checks the value, releases the
   semaphore in its finally clause and the task ends; gather's done callback
   records the child. *)
Resume(k, raised, value) ==
    /\ loop = "running"
    /\ pc[k] = "running"
    /\ LET status == CallAgentStatus(raised, value)
           w == CallAgentFinally(World)
           o == OuterAfter(outer, nfinished + 1, NumTasks, status)
       IN /\ SetWorld([w EXCEPT !.pc[k] = status,
                                !.ready = IF o # outer
                                            THEN Append(@, Callback("main", 0))
                                            ELSE @])
          /\ results' = [results EXCEPT ![k] = IF status = "result" THEN value ELSE NoValue]
          /\ outer' = o
          /\ nfinished' = nfinished + 1
    /\ UNCHANGED <<metricsVars, evaluateVars>>
    /\ UNCHANGED <<available_pages, agent, tasks, requests, main, loop,
                   report, json_file, csv_file>>

AgentAnswers(k) ==
    Resume(k, Touches(tasks[k], agent.raises),
           IF Touches(tasks[k], agent.wrong_shape) THEN NoValue ELSE AgentReply(tasks[k]))

(* The main task wakes up from the gather: extract_eval_data combines the
   reports and main writes both files, or the exception propagates out of
   extract_eval_data and main. *)
MainWakeup ==
    /\ ready # <<>> /\ Head(ready) = Callback("main", 0)
    /\ main = "awaiting"
    /\ IF outer = "result"
         THEN MainPersist(CombineReports(GatherResults(results)))
         ELSE /\ main' = "raised"
              /\ UNCHANGED <<report, json_file, csv_file>>
    /\ ready' = Append(Tail(ready), Callback("stop", 0))
    /\ UNCHANGED <<metricsVars, evaluateVars>>
    /\ UNCHANGED <<available_pages, agent, tasks, pc, results, sem_value,
                   sem_waiters, requests, outer, nfinished, loop>>

(* Task.cancel() on a task that is not done. *)
CancelledPc(p) ==
    CASE p = "created" -> "createdcancel"
      [] p = "waiting" -> "waitcancel"
      [] p = "woken" -> "wokencancel"
      [] p = "running" -> "cancelling"
      [] OTHER -> p

(* asyncio.run once main is done: the loop stops and every task that is not
   done is cancelled; a cancelled task whose future was pending is scheduled.
   The tasks are cancelled in task order: all of them are cancelled before
   any of them runs again, so the order changes no outcome. *)
LoopStop ==
    /\ ready # <<>> /\ Head(ready) = Callback("stop", 0)
    /\ loop = "running"
    /\ loop' = "shutdown"
    /\ pc' = [k \in 1..NumTasks |-> CancelledPc(pc[k])]
    /\ ready' = Tail(ready) \o
                  [i \in 1..Cardinality({k \in 1..NumTasks : pc[k] \in {"waiting", "running"}}) |->
                      Callback("step",
                               CHOOSE k \in 1..NumTasks :
                                   /\ pc[k] \in {"waiting", "running"}
                                   /\ Cardinality({j \in 1..k : pc[j] \in {"waiting", "running"}}) = i)]
    /\ UNCHANGED <<metricsVars, evaluateVars>>
    /\ UNCHANGED <<available_pages, agent, tasks, results, sem_value, sem_waiters,
                   requests, outer, nfinished, main, report, json_file, csv_file>>

(* CancelledError before the request: thrown into a call_agent that has not
   started, or inside Semaphore.acquire, where the waiter leaves the queue
   and gives the permit back when it had been woken; call_agent ends before
   its try. *)
CancelledBeforeRequest(k) ==
    /\ ready # <<>> /\ Head(ready) = Callback("step", k)
    /\ pc[k] \in {"createdcancel", "waitcancel", "wokencancel"}
    /\ LET w == [World EXCEPT !.ready = Tail(@), !.waiters = Remove(@, k),
                              !.value = IF pc[k] = "wokencancel" THEN @ + 1 ELSE @]
       IN SetWorld([(IF pc[k] = "createdcancel" THEN w ELSE wake_while(w))
                       EXCEPT !.pc[k] = "CancelledError"])
    /\ nfinished' = nfinished + 1
    /\ UNCHANGED <<metricsVars, evaluateVars>>
    /\ UNCHANGED <<available_pages, agent, tasks, results, requests, outer,
                   main, loop, report, json_file, csv_file>>

(* CancelledError inside agent.run: call_agent's finally releases. *)
RequestCancelled(k) ==
    /\ ready # <<>> /\ Head(ready) = Callback("step", k)
    /\ pc[k] = "cancelling"
    /\ LET w == CallAgentFinally([World EXCEPT !.ready = Tail(@)])
       IN SetWorld([w EXCEPT !.pc[k] = "CancelledError"])
    /\ nfinished' = nfinished + 1
    /\ UNCHANGED <<metricsVars, evaluateVars>>
    /\ UNCHANGED <<available_pages, agent, tasks, results, requests, outer,
                   main, loop, report, json_file, csv_file>>

(* asyncio.run returns (or re-raises main's exception) once every cancelled
   task has finished. *)
LoopClose ==
    /\ loop = "shutdown"
    /\ ready = <<>>
    /\ \A k \in 1..NumTasks : pc[k] \in Done
    /\ loop' = "closed"
    /\ UNCHANGED <<metricsVars, evaluateVars>>
    /\ UNCHANGED <<available_pages, agent, tasks, pc, results, sem_value,
                   sem_waiters, ready, requests, outer, nfinished, main, report,
                   json_file, csv_file>>

Next ==
    \/ ExtractStart
    \/ \E k \in 1..NumTasks : FirstStep(k)
    \/ \E k \in 1..NumTasks : AcquireWoken(k)
    \/ \E k \in 1..NumTasks : AgentAnswers(k)
    \/ MainWakeup
    \/ LoopStop
    \/ \E k \in 1..NumTasks : CancelledBeforeRequest(k)
    \/ \E k \in 1..NumTasks : RequestCancelled(k)
    \/ LoopClose

Spec == Init /\ [][Next]_vars

(* The extraction run under fair scheduling: runs with no batch, one short
   batch, one batch, two batches, and more batches than permits with a batch
   left waiting after the first release. *)
InitFair ==
    /\ ExtractInit({[i \in 1..n |-> i] : n \in (0..3) \cup {MaxPages}})
    /\ MetricsIdle
    /\ EvaluateIdle

(* The event loop runs the callback at the head of its ready queue whenever
   there is one, and a pending request is eventually answered (it returns or
   raises): the run does not stop while a step of it can be taken. *)
FairSpec == InitFair /\ [][Next]_vars /\ WF_vars(Next)

(* The scoring functions on one table *)
InitMetrics ==
    /\ ExtractInit({<<>>})
    /\ MetricsInit
    /\ EvaluateIdle

NextMetrics ==
    \/ ComputeExtractionAccuracy
    \/ ComputePrecision
    \/ ComputeRecall

SpecMetrics == InitMetrics /\ [][NextMetrics]_vars

(* The evaluation of one ground truth against one set of agent responses *)
InitEvaluate ==
    /\ ExtractInit({<<>>})
    /\ MetricsIdle
    /\ EvaluateInit

NextEvaluate ==
    \/ CreateEvaluationTable
    \/ CalculateOverallMetrics

SpecEvaluate == InitEvaluate /\ [][NextEvaluate]_vars

----------------------------------------------------------------------------
(* Properties of the extraction run (Spec) *)

NumPages == Len(available_pages)

CeilHalf(n) == (n + 1) \div 2

RequestsOf(k) == {i \in 1..Len(requests) : requests[i].task = k}

(* the pages of all requests made so far, in the order they were sent *)
PagesSent == Flatten([i \in 1..Len(requests) |-> requests[i].pages])

PageSet(s) == {s[x] : x \in 1..Len(s)}

WrongShapeAnswered == \E k \in 1..NumTasks : pc[k] = "ValueError"

(* C1: at no time are more than 10 agent.run requests in flight (started and
   not yet returned or raised), whatever the number of batches and the order
   in which the call_agent tasks run. *)
C1_InFlightAtMostTen == Cardinality(InFlight) <= 10

(* C1 witness: ten requests in flight while a further batch waits on the gate *)
C1_GateFull ==
    /\ Cardinality(InFlight) = 10
    /\ \E k \in 1..NumTasks : pc[k] = "waiting"

(* C2 as claimed: over the whole run exactly ceil(N/2) requests are issued,
   one per batch, the batches partitioning the pages. *)
C2_ExactlyCeilRequestsOverRun ==
    loop = "closed" =>
        /\ Len(requests) = CeilHalf(NumPages)
        /\ Len(PagesSent) = NumPages
        /\ PageSet(PagesSent) = PageSet(available_pages)

(* C2 amended: extract_eval_data creates exactly ceil(N/2) batches, batch k
   (from 0) holding the pages at input positions 2k and 2k+1 (one page for
   the last batch of an odd N); each batch issues its request at most once,
   never a second time, with exactly its pages; and when extract_eval_data
   returns a report every batch has issued its request exactly once, so every
   page was sent in exactly one request.  (When a request fails, batches
   still waiting on the gate are cancelled without issuing theirs.) *)
C2_BatchesPartitionAndAtMostOnce ==
    main # "start" =>
        /\ NumTasks = CeilHalf(NumPages)
        /\ \A k \in 1..NumTasks :
              /\ Len(tasks[k]) = IF 2 * k <= NumPages THEN 2 ELSE 1
              /\ \A x \in 1..Len(tasks[k]) :
                    tasks[k][x] = available_pages[2 * (k - 1) + x]
              /\ Cardinality(RequestsOf(k)) <= 1
              /\ \A i \in RequestsOf(k) : requests[i].pages = tasks[k]
        /\ Cardinality(PageSet(PagesSent)) = Len(PagesSent)
        /\ main = "returned" =>
              /\ Len(requests) = CeilHalf(NumPages)
              /\ PageSet(PagesSent) = PageSet(available_pages)

(* C2 witness: a run over an odd number of pages and more batches than
   permits has returned its report *)
C2_OddRunReturned ==
    /\ main = "returned"
    /\ NumPages % 2 = 1
    /\ NumTasks > 10
    /\ Len(requests) = NumTasks

(* the per-batch lists, batch 0 first *)
RECURSIVE ListsInSubmissionOrder(_)
ListsInSubmissionOrder(k) ==
    IF k = 0 THEN <<>>
    ELSE ListsInSubmissionOrder(k - 1) \o results[k].material_changes

(* C3: when every request succeeds, the report extract_eval_data returns is
   the per-batch material_changes lists concatenated in batch submission
   order, each in its own order, whatever the order of acquisition and
   completion. *)
C3_ReportInSubmissionOrder ==
    main = "returned" =>
        /\ \A k \in 1..NumTasks : results[k] = AgentReply(tasks[k])
        /\ report.material_changes = ListsInSubmissionOrder(NumTasks)

(* C3 witness: a contended run returned a report in which the first and the
   last batch both have material changes *)
C3_ContendedRunReturned ==
    /\ main = "returned"
    /\ NumTasks > 10
    /\ results[1].material_changes # <<>>
    /\ results[NumTasks].material_changes # <<>>
    /\ results[1] # results[NumTasks]

(* C4: once a request has answered a value that is not a
   MaterialChangesReport, its call_agent has raised, extract_eval_data never
   returns a report, neither output file is ever written, and the run ends
   with main raising. *)
C4_WrongShapeIsFatal ==
    /\ \A k \in 1..NumTasks :
          (/\ pc[k] \in {"result", "ValueError", "AgentError"}
           /\ Touches(tasks[k], agent.wrong_shape)
           /\ ~Touches(tasks[k], agent.raises)) => pc[k] = "ValueError"
    /\ WrongShapeAnswered =>
          /\ main # "returned"
          /\ report = NoValue
          /\ json_file = Absent
          /\ csv_file = Absent
          /\ loop = "closed" => main = "raised"

(* C4 witness: the run is over, one request answered the wrong shape and
   other batches had succeeded *)
C4_AbortedWithSuccessfulBatches ==
    /\ loop = "closed"
    /\ WrongShapeAnswered
    /\ \E k \in 1..NumTasks : pc[k] = "result"
    /\ main = "raised"

RECURSIVE ReasonPairs(_)
ReasonPairs(changes) ==
    IF changes = <<>> THEN <<>>
    ELSE [r \in 1..Len(Head(changes).reasons_for_change) |->
             <<Head(changes).material_change, Head(changes).reasons_for_change[r]>>]
         \o ReasonPairs(Tail(changes))

RECURSIVE SumOfReasons(_)
SumOfReasons(changes) ==
    IF changes = <<>> THEN 0
    ELSE Len(Head(changes).reasons_for_change) + SumOfReasons(Tail(changes))

(* C10: the table to_tabular_format returns has exactly one row per
   (material change, reason) pair of the report, in report order: as many
   rows as the reasons of all material changes together, none for a material
   change without reasons. *)
C10_OneRowPerReason ==
    csv_file # Absent =>
        LET rows == csv_file[1]
            pairs == ReasonPairs(report.material_changes)
        IN /\ Len(rows) = SumOfReasons(report.material_changes)
           /\ Len(rows) = Len(pairs)
           /\ \A i \in 1..Len(rows) :
                 /\ rows[i].material_change = pairs[i][1]
                 /\ rows[i].reason = pairs[i][2].reason
                 /\ rows[i].supporting_text = pairs[i][2].suporting_text
                 /\ rows[i].reference_file_name = pairs[i][2].reference.file_name
                 /\ rows[i].reference_page_number = pairs[i][2].reference.page_number

(* C10 witness: a written table for a report with a material change without
   reasons and one with several *)
C10_TableWithEmptyAndMultiple ==
    /\ csv_file # Absent
    /\ \E c \in 1..Len(report.material_changes) :
          report.material_changes[c].reasons_for_change = <<>>
    /\ \E c \in 1..Len(report.material_changes) :
          Len(report.material_changes[c].reasons_for_change) > 1

----------------------------------------------------------------------------
(* Properties of the scoring functions (SpecMetrics) *)

Rows == 1..Len(data)

ExtractedRows == {i \in Rows : data[i].extracted_value # NaN}

ExpectedRows == {i \in Rows : data[i].expected_value # NaN}

BothMissingRows ==
    {i \in Rows : data[i].expected_value = NaN /\ data[i].extracted_value = NaN}

EqualRows == {i \in Rows : data[i].expected_value = data[i].extracted_value}

IsNaN(f) == f.den = 0

(* the float f is the quotient n / d *)
IsQuotient(f, n, d) ==
    IF d = 0 THEN IsNaN(f) ELSE ~IsNaN(f) /\ f.num * d = n * f.den

IsOne(f) == IsQuotient(f, 1, 1)

(* C5: for a table with a row whose extracted value is not missing,
   compute_precision is the number of rows with a non-missing extracted value
   equal to the expected value, divided by the number of rows with a
   non-missing extracted value. *)
C5_PrecisionOverExtractedRows ==
    (precision # NotComputed /\ ExtractedRows # {}) =>
        IsQuotient(precision,
                   Cardinality(ExtractedRows \cap EqualRows),
                   Cardinality(ExtractedRows))

(* C5 witness: precision computed on a table with a matching row, a
   mismatching row and a row whose extracted value is missing *)
C5_PrecisionOfMixedTable ==
    /\ precision # NotComputed
    /\ ExtractedRows \cap EqualRows # {}
    /\ ExtractedRows \ EqualRows # {}
    /\ ExpectedRows \ ExtractedRows # {}

(* C6: for a table with a row whose expected value is not missing,
   compute_recall is the number of rows with a non-missing expected value
   equal to the extracted value, divided by the number of rows with a
   non-missing expected value; a missing extracted value is a mismatch. *)
C6_RecallOverExpectedRows ==
    (recall # NotComputed /\ ExpectedRows # {}) =>
        IsQuotient(recall,
                   Cardinality(ExpectedRows \cap EqualRows),
                   Cardinality(ExpectedRows))

(* C6 witness: recall computed on a table with a matching row, a row whose
   extracted value is missing and a row whose expected value is missing *)
C6_RecallOfMixedTable ==
    /\ recall # NotComputed
    /\ ExpectedRows \cap EqualRows # {}
    /\ ExpectedRows \ ExtractedRows # {}
    /\ ExtractedRows \ ExpectedRows # {}

(* C7 as claimed: precision and recall count a row whose two values are both
   missing as a correct row. *)
C7_BothMissingCountsAsMatch ==
    /\ precision # NotComputed =>
          IsQuotient(precision,
                     Cardinality((ExtractedRows \cup BothMissingRows) \cap EqualRows),
                     Cardinality(ExtractedRows \cup BothMissingRows))
    /\ recall # NotComputed =>
          IsQuotient(recall,
                     Cardinality((ExpectedRows \cup BothMissingRows) \cap EqualRows),
                     Cardinality(ExpectedRows \cup BothMissingRows))

(* the table without the rows whose two values are both missing *)
WithoutBothMissing(df) ==
    SelectSeq(df, LAMBDA row : ~(row.expected_value = NaN /\ row.extracted_value = NaN))

(* C7 amended: in precision and recall scoring a row whose expected and
   extracted values are both missing is left out: it counts neither as a
   correct row nor as a mismatch, and both scores are those of the table
   without such rows. *)
C7_BothMissingRowsLeftOut ==
    /\ precision # NotComputed =>
          /\ precision.num = Cardinality(ExtractedRows \cap EqualRows)
          /\ precision.den = Len(data) - Cardinality(Rows \ ExtractedRows)
          /\ precision = compute_precision(WithoutBothMissing(data),
                                           "expected_value", "extracted_value")
    /\ recall # NotComputed =>
          /\ recall.num = Cardinality(ExpectedRows \cap EqualRows)
          /\ recall.den = Len(data) - Cardinality(Rows \ ExpectedRows)
          /\ recall = compute_recall(WithoutBothMissing(data),
                                     "expected_value", "extracted_value")

(* C7 witness: both scores computed on a table with a row whose two values
   are missing beside a matching and a mismatching row *)
C7_ScoredWithBothMissingRow ==
    /\ precision # NotComputed
    /\ recall # NotComputed
    /\ BothMissingRows # {}
    /\ (ExtractedRows \cap ExpectedRows) \cap EqualRows # {}
    /\ (ExtractedRows \cap ExpectedRows) \ EqualRows # {}

(* C8 as claimed: when every row's extracted value is identical to its
   expected value, precision and recall are both 1.0. *)
C8_IdenticalGivesOne ==
    EqualRows = Rows =>
        /\ precision # NotComputed => IsOne(precision)
        /\ recall # NotComputed => IsOne(recall)

(* C8 amended: when every row's extracted value is identical to its expected
   value and at least one row's value is not missing, precision and recall
   are both 1.0; for the empty table and for a table of missing values only
   they are NaN. *)
C8_IdenticalGivesOneOrNaN ==
    EqualRows = Rows =>
        /\ precision # NotComputed =>
              IF ExtractedRows # {} THEN IsOne(precision) ELSE IsNaN(precision)
        /\ recall # NotComputed =>
              IF ExpectedRows # {} THEN IsOne(recall) ELSE IsNaN(recall)

(* C8 witness: both scores computed on a table of identical rows, one of
   them with both values missing *)
C8_ScoredIdenticalTable ==
    /\ precision # NotComputed
    /\ recall # NotComputed
    /\ EqualRows = Rows
    /\ BothMissingRows # {}
    /\ ExtractedRows # {}

----------------------------------------------------------------------------
(* Properties of the evaluation table (SpecEvaluate) *)

HasDuplicateKey(df) ==
    \E i, j \in 1..Len(df) : i < j /\ KeyOf(df[i]) = KeyOf(df[j])

(* the value a table holds for a key, missing when it lacks the key *)
ValueFor(df, k) ==
    IF k \in KeysOf(df)
      THEN df[CHOOSE i \in 1..Len(df) : KeyOf(df[i]) = k].latest_yoy_pct
      ELSE NaN

(* C9: create_evaluation_table raises when an (id, name) key occurs twice in
   the ground truth or twice in the agent responses; otherwise its table has
   exactly one row for each key of either input, the side lacking the key
   left missing. *)
C9_OneToOneOuterMerge ==
    evaluation_df # NoTable =>
        IF HasDuplicateKey(ground_truth_df) \/ HasDuplicateKey(agent_responses_df)
          THEN evaluation_df.status = "MergeError"
          ELSE /\ evaluation_df.status = "ok"
               /\ Len(evaluation_df.rows) =
                     Cardinality(KeysOf(ground_truth_df) \cup KeysOf(agent_responses_df))
               /\ \A k \in KeysOf(ground_truth_df) \cup KeysOf(agent_responses_df) :
                     \E i \in 1..Len(evaluation_df.rows) :
                        evaluation_df.rows[i] =
                            EvaluationRow(k, ValueFor(ground_truth_df, k),
                                          ValueFor(agent_responses_df, k))

(* C9 witness: a merged table with a key of both inputs and a key that only
   the ground truth has *)
C9_MergedWithOneSidedKey ==
    /\ evaluation_df.status = "ok"
    /\ KeysOf(ground_truth_df) \cap KeysOf(agent_responses_df) # {}
    /\ KeysOf(ground_truth_df) \ KeysOf(agent_responses_df) # {}

----------------------------------------------------------------------------
(* Properties of the gate (Spec) *)

PermitsHeld == SEMAPHORE_VALUE - sem_value

(* the call_agent invocations still inside acquire that a release has handed
   a permit to *)
HandedPermit == {k \in 1..NumTasks : pc[k] \in {"woken", "wokencancel"}}

AllFinished == main # "start" /\ \A k \in 1..NumTasks : pc[k] \in Done

(* C11 as claimed: in every state the permits held are as many as the
   call_agent invocations between acquire and release, between 0 and 10, and
   all 10 are available once every invocation has finished. *)
C11_PermitsEqualInvocationsInTry ==
    /\ PermitsHeld = Cardinality(InFlight)
    /\ PermitsHeld \in 0..10
    /\ AllFinished => sem_value = 10

(* C11 amended: the permit is released on every exit path (valid report,
   wrong-shaped value, exception, cancellation): in every state the permits
   held are as many as the call_agent invocations that are between acquire
   and release or that a release has handed a permit to while they are still
   suspended in acquire; the number is between 0 and 10; and all 10 permits
   are available once every invocation has finished. *)
C11_PermitsEqualHolders ==
    /\ PermitsHeld = Cardinality(InFlight) + Cardinality(HandedPermit)
    /\ PermitsHeld \in 0..10
    /\ \A k \in 1..NumTasks : pc[k] \in Done => k \notin InFlight \cup HandedPermit
    /\ AllFinished => sem_value = 10

(* C11 witness: a run of more batches than permits is over, with a batch that
   returned a report, one that answered the wrong shape, one whose request
   raised and one that was cancelled, and all permits are back *)
C11_AllExitPathsTaken ==
    /\ loop = "closed"
    /\ NumTasks > 10
    /\ \E k \in 1..NumTasks : pc[k] = "result"
    /\ \E k \in 1..NumTasks : pc[k] = "ValueError"
    /\ \E k \in 1..NumTasks : pc[k] = "AgentError"
    /\ \E k \in 1..NumTasks : pc[k] = "CancelledError"
    /\ sem_value = 10

----------------------------------------------------------------------------
(* Termination of the extraction (FairSpec) *)

(* call_agent k is suspended in Semaphore.acquire *)
WaitingOnGate(k) ==
    k <= NumTasks /\ pc[k] \in {"waiting", "woken", "waitcancel", "wokencancel"}

(* call_agent k has returned from Semaphore.acquire with a permit *)
Acquired(k) ==
    k <= NumTasks /\ pc[k] \in {"running", "cancelling", "result", "ValueError", "AgentError"}

(* call_agent k has taken CancelledError inside Semaphore.acquire *)
CancelledInAcquire(k) ==
    /\ k <= NumTasks
    /\ pc[k] = "CancelledError"
    /\ \A i \in 1..Len(requests) : requests[i].task # k

ExtractFinished == main \in {"returned", "raised"}

RunOver ==
    /\ ExtractFinished
    /\ loop = "closed"
    /\ \A k \in 1..NumTasks : pc[k] \in Done

(* C12 as claimed: extract_eval_data eventually finishes, and every batch
   waiting on the gate eventually acquires a permit: the run ends with no
   batch waiting, and a waiting batch leaves the gate only with a permit. *)
C12_FinishesAndEveryWaiterAcquires ==
    /\ <>RunOver
    /\ [][\A k \in 1..NumTasks :
            WaitingOnGate(k) => (WaitingOnGate(k)' \/ Acquired(k)')]_vars

(* C12 amended: under fair scheduling, with every request eventually
   answered, extract_eval_data eventually finishes (returns or raises) and
   the run ends with no batch waiting, for more than 10 batches too; a batch
   waiting on the gate leaves it with a permit or, once main has raised, by
   being cancelled inside acquire, so no batch waits forever; and when
   extract_eval_data returns the report every batch has acquired a permit. *)
C12_FinishesAndNoBatchWaitsForever ==
    /\ <>RunOver
    /\ [][\A k \in 1..NumTasks :
            WaitingOnGate(k) =>
                \/ WaitingOnGate(k)'
                \/ Acquired(k)'
                \/ CancelledInAcquire(k)' /\ main = "raised"]_vars
    /\ [](main = "returned" => \A k \in 1..NumTasks : Acquired(k))

(* C12 witness: a run with more batches than permits has returned the
   report: the last batch had to wait on the gate, was woken, sent its
   request last and got its report *)
C12_WaiterServedAndReturned ==
    /\ main = "returned"
    /\ loop = "closed"
    /\ NumTasks > SEMAPHORE_VALUE + 1
    /\ sem_waiters = <<>>
    /\ requests[Len(requests)].task = NumTasks
    /\ pc[NumTasks] = "result"

====
